---- MODULE Spec2Model ----
(***************************************************************************)
(* jupyterlab-web-llm-completer: the foreground completion provider        *)
(* (WebLLMInlineProvider), the background Worker, the message channel      *)
(* between them and the shared generation-counter cell.                    *)
(*                                                                         *)
(* Specifications:                                                         *)
(*   Spec     the provider driven through its interface: the host's calls  *)
(*            (configure, fetch, stream pulls) and the message events its  *)
(*            listener receives, drawn from the WorkerMessage contract.    *)
(*   SpecBg   the Worker driven through its interface: the messages its    *)
(*            listener receives in FIFO order, the engine's outcomes.      *)
(*   SpecBgLive  SpecBg with the Worker's event loop taking every step     *)
(*            that is ready to run.                                        *)
(*   SpecSys  the provider posting into the channel the Worker consumes.   *)
(*   SpecCfg  the provider's configuration path under repeated configure() *)
(*            calls.                                                       *)
(* Strings that are sliced are sequences of one-character strings.         *)
(***************************************************************************)
EXTENDS Integers, Sequences, FiniteSets, TLC

\* ------------------------------------------------------------------ bounds
MaxFetch == 2
MaxConfigure == 1
MaxGenerateN == 2
MaxInitiate == 2
MaxNotifications == 1

\* ------------------------------------------------------------- vocabulary
NONE == "none"
UNDEFINED == "undefined"
Catalog == {"m1", "m2"}
ModelNames == Catalog \cup {NONE}

TextMimeTypes ==
  {"text/x-ipythongfm", "text/x-markdown", "text/plain",
   "text/x-rst", "text/x-latex", "text/x-rsrc"}

DEFAULT_SETTINGS ==
  [codeModel |-> NONE, textModel |-> "m1", generateN |-> 2,
   maxContextWindow |-> 525]

\* Settings the host may pass to configure().
SettingsChoices ==
  {DEFAULT_SETTINGS,
   [codeModel |-> "m1", textModel |-> "m1", generateN |-> 1,
    maxContextWindow |-> 1],
   [codeModel |-> "m2", textModel |-> NONE, generateN |-> MaxGenerateN,
    maxContextWindow |-> 525]}

\* Completion requests the host may pass to fetch().
Requests ==
  {[mimeType |-> "text/plain", text |-> <<"a", "b">>, offset |-> 2],
   [mimeType |-> "text/x-python", text |-> <<"a", "b">>, offset |-> 1]}

Outputs == {<<"x">>}

MaxTokens == MaxFetch * MaxGenerateN
TokenIds == 1..MaxTokens

Min(a, b) == IF a <= b THEN a ELSE b

\* ------------------------------------------------------- message contract
\* ClientMessage (foreground -> background); one record shape, unused
\* fields blank.
ClientMsg(action, model, idTokens, counter, text, generateN) ==
  [action |-> action, model |-> model, idTokens |-> idTokens,
   counter |-> counter, text |-> text, generateN |-> generateN]

IInitializeBuffer == ClientMsg("initializeBuffer", "", <<>>, 0, <<>>, 0)
IInitializeModel(m) == ClientMsg("initializeModel", m, <<>>, 0, <<>>, 0)
IDisposeModel(m) == ClientMsg("disposeModel", m, <<>>, 0, <<>>, 0)
IGenerate(m, text, idTokens, counter, n) ==
  ClientMsg("generate", m, idTokens, counter, text, n)

VARIABLES
  \* ---- foreground: WebLLMInlineProvider
  settings,            \* _settings
  workerStarted,       \* _workerStarted is resolved
  bufferSent,          \* the constructor's then-callback has run
  currentGeneration,   \* _currentGeneration
  currentModels,       \* _currentModels: class -> model name or UNDEFINED
  loadingNotifications,\* keys of _loadingNotifications
  ready,               \* _ready: model -> its delegates, oldest first (TRUE = resolved)
  streamPromises,      \* keys of _streamPromises
  tokenCounter,        \* _tokenCounter
  strm,                \* token -> the generator stream(token) and its pull
  pendingFetch,        \* fetch() calls suspended at `await this._ready[model].promise`
  pendingConfigure,    \* configure() calls suspended at `await this._workerStarted.promise`
  fetchCalls,          \* number of fetch() calls made
  configureCalls,      \* number of configure() calls made
  items,               \* the items of the last fetch() that returned
  notifications,       \* the idTokens of the events _msgException reported, in order
  \* ---- shared memory and channel
  sharedArray,         \* cell 0 of the SharedArrayBuffer
  posted,              \* messages posted to the worker, in order
  \* ---- background: Worker
  workerSharedArray,   \* _sharedArray: "null" or "bound"
  completionModels,    \* _completionModels: model name -> index in handles, 0 = no entry
  handles,             \* the CompletionModel objects constructed, oldest first
  runs,                \* the _generate calls made, oldest first
  emitted,             \* messages the worker posted, in order
  delivered            \* number of messages of `posted` the worker has handled

fgVars ==
  <<settings, workerStarted, bufferSent, currentGeneration, currentModels,
    loadingNotifications, ready, streamPromises, tokenCounter, strm,
    pendingFetch, pendingConfigure, fetchCalls, configureCalls,
    items, notifications, sharedArray, posted>>

bgVars ==
  <<workerSharedArray, completionModels, handles, runs, emitted, delivered>>

vars == <<fgVars, bgVars>>

\* ------------------------------------------------------------- foreground
IdleStream == [pc |-> "unstarted", done |-> FALSE, insertText |-> <<>>, at |-> 0]

FgInit ==
  /\ settings = DEFAULT_SETTINGS
  /\ workerStarted = FALSE
  /\ bufferSent = FALSE
  /\ currentGeneration = 0
  /\ currentModels = [code |-> UNDEFINED, text |-> UNDEFINED]
  /\ loadingNotifications = {}
  /\ ready = [m \in ModelNames |-> <<>>]
  /\ streamPromises = {}
  /\ tokenCounter = 0
  /\ strm = [t \in TokenIds |-> IdleStream]
  /\ pendingFetch = {}
  /\ pendingConfigure = 0
  /\ fetchCalls = 0
  /\ configureCalls = 0
  /\ items = <<>>
  /\ notifications = <<>>
  /\ sharedArray = 0
  /\ posted = <<>>

\* The constructor's reaction on _workerStarted was registered first: it runs
\* in the microtask checkpoint of the task that resolved the promise, before
\* any later reaction and before the next task.
Quiescent == ~(workerStarted /\ ~bufferSent)

\* constructor: this._workerStarted.promise.then(() => post initializeBuffer)
WorkerStartedThen ==
  /\ workerStarted /\ ~bufferSent
  /\ bufferSent' = TRUE
  /\ posted' = Append(posted, IInitializeBuffer)
  /\ UNCHANGED <<notifications, settings, workerStarted, currentGeneration, currentModels,
                 loadingNotifications, ready, streamPromises, tokenCounter,
                 strm, pendingFetch, pendingConfigure, fetchCalls,
                 configureCalls, items, sharedArray>>
  /\ UNCHANGED bgVars

SwitchModelPosts_InitializeFirst(oldModel, newModel) ==
  IF oldModel = newModel THEN <<>>
  ELSE (IF newModel # NONE THEN <<IInitializeModel(newModel)>> ELSE <<>>)
       \o (IF oldModel # UNDEFINED THEN <<IDisposeModel(oldModel)>> ELSE <<>>)

\* _switchModel: the messages it posts for one content class
SwitchModelPosts(oldModel, newModel) ==
  IF oldModel = newModel THEN <<>>
  ELSE (IF oldModel # UNDEFINED THEN <<IDisposeModel(oldModel)>> ELSE <<>>)
       \o (IF newModel # NONE THEN <<IInitializeModel(newModel)>> ELSE <<>>)

\* _switchModel: the record of the models serving each content class
SwitchModelRecord(models, newModel, type) == [models EXCEPT ![type] = newModel]

\* configure(), up to its await; at most `bound` calls are made
ConfigureCallUpTo(s, bound) ==
  /\ Quiescent
  /\ configureCalls < bound
  /\ configureCalls' = configureCalls + 1
  /\ settings' = s
  /\ pendingConfigure' = pendingConfigure + 1
  /\ UNCHANGED <<notifications, workerStarted, bufferSent, currentGeneration, currentModels,
                 loadingNotifications, ready, streamPromises, tokenCounter,
                 strm, pendingFetch, fetchCalls, items,
                 sharedArray, posted>>
  /\ UNCHANGED bgVars

ConfigureCall(s) == ConfigureCallUpTo(s, MaxConfigure)

ConfigureResume_NoAwait ==
  /\ pendingConfigure > 0
  /\ pendingConfigure' = pendingConfigure - 1
  /\ posted' = posted
                \o SwitchModelPosts(currentModels.code, settings.codeModel)
                \o SwitchModelPosts(currentModels.text, settings.textModel)
  /\ currentModels' =
       SwitchModelRecord(SwitchModelRecord(currentModels, settings.codeModel, "code"),
                         settings.textModel, "text")
  /\ UNCHANGED <<notifications, settings, workerStarted, bufferSent, currentGeneration,
                 loadingNotifications, ready, streamPromises, tokenCounter,
                 strm, pendingFetch, fetchCalls, configureCalls,
                 items, sharedArray>>
  /\ UNCHANGED bgVars

\* configure(), after its await: both _switchModel calls
ConfigureResume ==
  /\ Quiescent
  /\ pendingConfigure > 0
  /\ workerStarted
  /\ pendingConfigure' = pendingConfigure - 1
  /\ posted' = posted
                \o SwitchModelPosts(currentModels.code, settings.codeModel)
                \o SwitchModelPosts(currentModels.text, settings.textModel)
  /\ currentModels' =
       SwitchModelRecord(SwitchModelRecord(currentModels, settings.codeModel, "code"),
                         settings.textModel, "text")
  /\ UNCHANGED <<notifications, settings, workerStarted, bufferSent, currentGeneration,
                 loadingNotifications, ready, streamPromises, tokenCounter,
                 strm, pendingFetch, fetchCalls, configureCalls,
                 items, sharedArray>>
  /\ UNCHANGED bgVars

\* fetch(): the model serving the request
FetchModel(req) ==
  IF req.mimeType \in TextMimeTypes THEN settings.textModel
  ELSE settings.codeModel

\* fetch(), up to `await this._ready[model].promise`; the member access
\* throws when _ready has no entry for the model.
FetchCall(req) ==
  /\ Quiescent
  /\ fetchCalls < MaxFetch
  /\ fetchCalls' = fetchCalls + 1
  /\ LET model == FetchModel(req) IN
       IF Len(ready[model]) = 0
       THEN UNCHANGED pendingFetch
       ELSE pendingFetch' = pendingFetch \cup
                 {[id |-> fetchCalls + 1, req |-> req, model |-> model,
                   delegate |-> Len(ready[model])]}
  /\ UNCHANGED <<notifications, settings, workerStarted, bufferSent, currentGeneration,
                 currentModels, loadingNotifications, ready, streamPromises,
                 tokenCounter, strm, pendingConfigure, configureCalls, items,
                 sharedArray, posted>>
  /\ UNCHANGED bgVars

\* _prefixFromRequest
PrefixFromRequest(req, maxContextWindow) ==
  LET textBefore == SubSeq(req.text, 1, Min(req.offset, Len(req.text)))
      k == Min(maxContextWindow, Len(textBefore))
  IN  \* slice(-k): the last k characters; slice(-0) is the whole string
      IF k = 0 THEN textBefore
      ELSE SubSeq(textBefore, Len(textBefore) - k + 1, Len(textBefore))

AbortPrevious_NoBump(generation) == generation
AbortPrevious_Twice(generation) == generation + 2

\* _abortPrevious: the generation counter after the bump
AbortPrevious(generation) == generation + 1

MintTokens_NoIncrement(counter, n) == [i \in 1..n |-> counter + 1]

\* fetch(): the tokens minted, 'T' + ++this._tokenCounter for each candidate
MintTokens(counter, n) == [i \in 1..n |-> counter + i]

\* fetch(): the items returned
PlaceholderItems(idTokens) ==
  [i \in 1..Len(idTokens) |->
     [insertText |-> <<>>, isIncomplete |-> TRUE, token |-> idTokens[i]]]

\* fetch(), after its await
FetchResume(f) ==
  /\ Quiescent
  /\ f \in pendingFetch
  /\ ready[f.model][f.delegate]
  /\ LET generation == AbortPrevious(currentGeneration)
         idTokens == MintTokens(tokenCounter, settings.generateN)
     IN  /\ currentGeneration' = generation
         /\ sharedArray' = generation
         /\ streamPromises' = {}
         /\ tokenCounter' = tokenCounter + settings.generateN
         /\ items' = PlaceholderItems(idTokens)
         /\ posted' = Append(posted,
              IGenerate(f.model,
                        PrefixFromRequest(f.req, settings.maxContextWindow),
                        idTokens, generation, settings.generateN))
  /\ pendingFetch' = pendingFetch \ {f}
  /\ UNCHANGED <<notifications, settings, workerStarted, bufferSent, currentModels,
                 loadingNotifications, ready, strm, pendingConfigure,
                 fetchCalls, configureCalls>>
  /\ UNCHANGED bgVars

\* stream(token): the consumer calls next() on the generator.  One generator
\* per token (the host streams each returned item once), so a key of
\* _streamPromises always holds the delegate its generator created last.
Pull(t) ==
  /\ Quiescent
  /\ t \in 1..tokenCounter
  /\ \/ /\ strm[t].pc = "unstarted" \/ (strm[t].pc = "yielded" /\ ~strm[t].done)
        /\ strm' = [strm EXCEPT ![t].pc = "waiting"]
        /\ streamPromises' = streamPromises \cup {t}
     \/ /\ strm[t].pc = "yielded" /\ strm[t].done
        /\ strm' = [strm EXCEPT ![t].pc = "returned"]
        /\ UNCHANGED streamPromises
  /\ UNCHANGED <<notifications, settings, workerStarted, bufferSent, currentGeneration,
                 currentModels, loadingNotifications, ready, tokenCounter,
                 pendingFetch, pendingConfigure, fetchCalls,
                 configureCalls, items, sharedArray, posted>>
  /\ UNCHANGED bgVars

\* delegate.resolve(value) on the delegate stored for `t`: settles the pull
\* awaiting it; a no-op on a settled delegate.
Resolve(s, t, done, output) ==
  IF t \in streamPromises /\ s[t].pc = "waiting"
  THEN [s EXCEPT ![t] = [pc |-> "yielded", done |-> done,
                         insertText |-> output, at |-> currentGeneration]]
  ELSE s

\* delegate.reject(null) on the delegate stored for `t`: the pull fails and
\* the generator ends.
Reject(s, t) ==
  IF t \in streamPromises /\ s[t].pc = "waiting"
  THEN [s EXCEPT ![t].pc = "rejected"]
  ELSE s

MsgWorkerStarted ==
  /\ Quiescent
  /\ workerStarted' = TRUE
  /\ UNCHANGED <<notifications, settings, bufferSent, currentGeneration, currentModels,
                 loadingNotifications, ready, streamPromises, tokenCounter,
                 strm, pendingFetch, pendingConfigure, fetchCalls,
                 configureCalls, items, sharedArray, posted>>
  /\ UNCHANGED bgVars

MsgInitiate(m) ==
  /\ Quiescent
  /\ Len(ready[m]) < MaxInitiate
  /\ ready' = [ready EXCEPT ![m] = Append(@, FALSE)]
  /\ loadingNotifications' = loadingNotifications \cup {m}
  /\ UNCHANGED <<notifications, settings, workerStarted, bufferSent, currentGeneration,
                 currentModels, streamPromises, tokenCounter, strm,
                 pendingFetch, pendingConfigure, fetchCalls,
                 configureCalls, items, sharedArray, posted>>
  /\ UNCHANGED bgVars

\* _msgReady; throws when _ready has no entry for the model
MsgReady(m) ==
  /\ Quiescent
  /\ ready' = IF Len(ready[m]) = 0 THEN ready
              ELSE [ready EXCEPT ![m][Len(ready[m])] = TRUE]
  /\ UNCHANGED <<notifications, settings, workerStarted, bufferSent, currentGeneration,
                 currentModels, loadingNotifications, streamPromises,
                 tokenCounter, strm, pendingFetch, pendingConfigure,
                 fetchCalls, configureCalls, items, sharedArray,
                 posted>>
  /\ UNCHANGED bgVars

\* _tickWorker
TickWorker == sharedArray' = currentGeneration

MsgUpdate(t, output) ==
  /\ Quiescent
  /\ TickWorker
  /\ strm' = Resolve(strm, t, FALSE, output)
  /\ UNCHANGED <<notifications, settings, workerStarted, bufferSent, currentGeneration,
                 currentModels, loadingNotifications, ready, streamPromises,
                 tokenCounter, pendingFetch, pendingConfigure, fetchCalls,
                 configureCalls, items, posted>>
  /\ UNCHANGED bgVars

MsgComplete(t, output) ==
  /\ Quiescent
  /\ strm' = Resolve(strm, t, TRUE, output)
  /\ streamPromises' = streamPromises \ {t}
  /\ UNCHANGED <<notifications, settings, workerStarted, bufferSent, currentGeneration,
                 currentModels, loadingNotifications, ready, tokenCounter,
                 pendingFetch, pendingConfigure, fetchCalls,
                 configureCalls, items, sharedArray, posted>>
  /\ UNCHANGED bgVars

RECURSIVE RejectAll(_, _)
RejectAll(s, idTokens) ==
  IF idTokens = {} THEN s
  ELSE LET t == CHOOSE x \in idTokens : TRUE
       IN RejectAll(Reject(s, t), idTokens \ {t})

MsgInterrupted(idTokens) ==
  /\ Quiescent
  /\ strm' = RejectAll(strm, idTokens)
  /\ streamPromises' = streamPromises \ idTokens
  /\ UNCHANGED <<notifications, settings, workerStarted, bufferSent, currentGeneration,
                 currentModels, loadingNotifications, ready, tokenCounter,
                 pendingFetch, pendingConfigure, fetchCalls,
                 configureCalls, items, sharedArray, posted>>
  /\ UNCHANGED bgVars

\* _msgException: shows an error notification and logs; it settles no
\* delegate, whatever idTokens the event lists
MsgException(idTokens) ==
  /\ Quiescent
  /\ Len(notifications) < MaxNotifications
  /\ notifications' = Append(notifications, idTokens)
  /\ UNCHANGED <<settings, workerStarted, bufferSent, currentGeneration,
                 currentModels, loadingNotifications, ready, streamPromises,
                 tokenCounter, strm, pendingFetch, pendingConfigure,
                 fetchCalls, configureCalls, items, sharedArray, posted>>
  /\ UNCHANGED bgVars

\* The generate messages posted so far, and the request a token belongs to.
Generates == {i \in 1..Len(posted) : posted[i].action = "generate"}
TokensOf(i) == {posted[i].idTokens[k] : k \in 1..Len(posted[i].idTokens)}
RequestOf(t) == CHOOSE i \in Generates : t \in TokensOf(i)

\* The models named by the initializeModel and generate messages posted.
Requested ==
  {posted[i].model : i \in {j \in 1..Len(posted) :
      posted[j].action \in {"initializeModel", "generate"}}}

\* _onMessageReceived: the event is one of the WorkerMessage contract.  The
\* worker posts 'worker-started' before anything else, its load events name
\* a model it was sent, and its completion events carry the idTokens of a
\* generate message it was sent.
OnMessageReceived ==
  \/ MsgWorkerStarted
  \/ /\ workerStarted
     /\ \/ \E m \in Requested : MsgInitiate(m)
        \/ \E m \in Requested : MsgReady(m)
        \/ \E t \in 1..tokenCounter, o \in Outputs : MsgUpdate(t, o)
        \/ \E t \in 1..tokenCounter, o \in Outputs : MsgComplete(t, o)
        \/ \E i \in Generates : MsgInterrupted(TokensOf(i))
        \/ \E i \in Generates : MsgException(TokensOf(i))
        \/ MsgException({})

FgNext ==
  \/ WorkerStartedThen
  \/ \E s \in SettingsChoices : ConfigureCall(s)
  \/ ConfigureResume
  \/ \E r \in Requests : FetchCall(r)
  \/ \E f \in pendingFetch : FetchResume(f)
  \/ \E t \in TokenIds : Pull(t)
  \/ OnMessageReceived

\* ------------------------------------------------------------- background
MaxPosted == 3
MaxProgress == 1
MaxChunks == 2

\* What one candidate's delta of a chunk may hold; <<>> is a delta without
\* content.
Deltas == {<<>>, <<"a", "b", "y">>}

\* WorkerMessage (background -> foreground); one record shape, unused fields
\* blank.  An exception posted without idTokens has idTokens = <<>>.
WorkerMsg(status, model, idToken, idTokens, output, error) ==
  [status |-> status, model |-> model, idToken |-> idToken,
   idTokens |-> idTokens, output |-> output, error |-> error]

IWorkerStarted == WorkerMsg("worker-started", "", 0, <<>>, <<>>, "")
IInitiate(m) == WorkerMsg("initiate", m, 0, <<>>, <<>>, "")
IProgress(m) == WorkerMsg("progress", m, 0, <<>>, <<>>, "")
IDone(m) == WorkerMsg("done", m, 0, <<>>, <<>>, "")
IUpdate(t, output) == WorkerMsg("update", "", t, <<>>, output, "")
IComplete(t, output) == WorkerMsg("complete", "", t, <<>>, output, "")
IInterrupted(idTokens) ==
  WorkerMsg("interrupted", "", 0, idTokens, <<>>, "Execution interrupted")
IException(idTokens, error) ==
  WorkerMsg("exception", "", 0, idTokens, <<>>, error)

\* The module's last statement posts 'worker-started' before any message is
\* handled.
BgInit ==
  /\ workerSharedArray = "null"
  /\ completionModels = [m \in ModelNames |-> 0]
  /\ handles = <<>>
  /\ runs = <<>>
  /\ emitted = <<IWorkerStarted>>
  /\ delivered = 0

\* new CompletionModel(...): the engine is being created
NewHandle(m) ==
  [model |-> m, instance |-> "pending", catchers |-> 0, progress |-> 0,
   disposing |-> FALSE, unloaded |-> FALSE]

\* _initializeModel: the registry, the handles and the messages posted after
\* the call, and the handle it returns
InitializeModelRegistry(m) ==
  IF completionModels[m] # 0 THEN completionModels
  ELSE [completionModels EXCEPT ![m] = Len(handles) + 1]

InitializeModelHandles(m) ==
  IF completionModels[m] # 0 THEN handles ELSE Append(handles, NewHandle(m))

InitializeModelEmitted(m) ==
  IF completionModels[m] # 0 THEN emitted ELSE Append(emitted, IInitiate(m))

\* String.prototype.substring(start) on a sequence of characters
Substring(str, start) == SubSeq(str, Min(start, Len(str)) + 1, Len(str))

\* handleMessage, case 'initializeBuffer'
HandleInitializeBuffer(data) ==
  /\ workerSharedArray' = "bound"
  /\ UNCHANGED <<completionModels, handles, runs, emitted>>

\* handleMessage, case 'initializeModel': _initializeModel, then a catch
\* reaction on the instance that posts 'exception'
HandleInitializeModel(data) ==
  LET h == InitializeModelRegistry(data.model)[data.model]
      hs == InitializeModelHandles(data.model)
      em == InitializeModelEmitted(data.model)
  IN  /\ completionModels' = InitializeModelRegistry(data.model)
      /\ handles' = IF hs[h].instance = "pending"
                    THEN [hs EXCEPT ![h].catchers = @ + 1]
                    ELSE hs
      /\ emitted' = IF hs[h].instance = "rejected"
                    THEN Append(em, IException(<<>>, "load failed"))
                    ELSE em
      /\ UNCHANGED <<workerSharedArray, runs>>

HandleDisposeModel_Report(data) ==
  LET h == completionModels[data.model] IN
    /\ IF h = 0
       THEN /\ emitted' = Append(emitted, IException(<<>>, "no such model"))
            /\ UNCHANGED <<completionModels, handles>>
       ELSE /\ completionModels' = [completionModels EXCEPT ![data.model] = 0]
            /\ handles' = [handles EXCEPT ![h].disposing = TRUE]
            /\ UNCHANGED emitted
    /\ UNCHANGED <<workerSharedArray, runs>>

\* handleMessage, case 'disposeModel': _disposeModel, up to the await in
\* CompletionModel.dispose
HandleDisposeModel(data) ==
  LET h == completionModels[data.model] IN
    /\ IF h = 0
       THEN UNCHANGED <<completionModels, handles>>
       ELSE /\ completionModels' = [completionModels EXCEPT ![data.model] = 0]
            /\ handles' = [handles EXCEPT ![h].disposing = TRUE]
    /\ UNCHANGED <<workerSharedArray, runs, emitted>>

\* handleMessage, case 'generate': _generate up to `await model.instance`
HandleGenerate(data) ==
  IF workerSharedArray = "null"
  THEN /\ runs' = Append(runs,
            [model |-> data.model, handle |-> 0, idTokens |-> data.idTokens,
             startCounter |-> data.counter, text |-> data.text,
             pc |-> "noBuffer", tryExit |-> "none", chunks |-> 0,
             output |-> [i \in 1..Len(data.idTokens) |-> <<>>]])
       /\ UNCHANGED <<workerSharedArray, completionModels, handles, emitted>>
  ELSE /\ completionModels' = InitializeModelRegistry(data.model)
       /\ handles' = InitializeModelHandles(data.model)
       /\ emitted' = InitializeModelEmitted(data.model)
       /\ runs' = Append(runs,
            [model |-> data.model,
             handle |-> InitializeModelRegistry(data.model)[data.model],
             idTokens |-> data.idTokens, startCounter |-> data.counter,
             text |-> data.text, pc |-> "awaitInstance", tryExit |-> "none",
             chunks |-> 0,
             output |-> [i \in 1..Len(data.idTokens) |-> <<>>]])
       /\ UNCHANGED workerSharedArray

\* A message is handled in a task of its own: the continuations of the
\* promises settled so far (a run or a dispose awaiting a settled instance)
\* have run before the next task starts.
BgQuiescent ==
  /\ \A r \in 1..Len(runs) :
       runs[r].pc = "awaitInstance"
         => handles[runs[r].handle].instance = "pending"
  /\ \A h \in 1..Len(handles) :
       (handles[h].disposing /\ handles[h].instance = "fulfilled")
         => handles[h].unloaded

\* handleMessage: the worker's listener takes the channel's messages in order
HandleMessage ==
  /\ BgQuiescent
  /\ delivered < Len(posted)
  /\ delivered' = delivered + 1
  /\ LET data == posted[delivered + 1] IN
       CASE data.action = "generate" -> HandleGenerate(data)
         [] data.action = "initializeBuffer" -> HandleInitializeBuffer(data)
         [] data.action = "initializeModel" -> HandleInitializeModel(data)
         [] data.action = "disposeModel" -> HandleDisposeModel(data)
  /\ UNCHANGED fgVars

\* the engine reports loading progress: onLoadingProgress
EngineProgress(h) ==
  /\ handles[h].instance = "pending"
  /\ handles[h].progress < MaxProgress
  /\ handles' = [handles EXCEPT ![h].progress = @ + 1]
  /\ emitted' = Append(emitted, IProgress(handles[h].model))
  /\ UNCHANGED <<workerSharedArray, completionModels, runs, delivered>>
  /\ UNCHANGED fgVars

\* CreateEngine resolves: the reaction registered in _initializeModel posts
\* 'done'
EngineLoaded(h) ==
  /\ handles[h].instance = "pending"
  /\ handles' = [handles EXCEPT ![h].instance = "fulfilled"]
  /\ emitted' = Append(emitted, IDone(handles[h].model))
  /\ UNCHANGED <<workerSharedArray, completionModels, runs, delivered>>
  /\ UNCHANGED fgVars

\* CreateEngine rejects: each catch reaction attached by an initializeModel
\* message posts 'exception'
EngineLoadFailed(h) ==
  /\ handles[h].instance = "pending"
  /\ handles' = [handles EXCEPT ![h].instance = "rejected"]
  /\ emitted' = emitted \o
       [i \in 1..handles[h].catchers |-> IException(<<>>, "load failed")]
  /\ UNCHANGED <<workerSharedArray, completionModels, runs, delivered>>
  /\ UNCHANGED fgVars

\* CompletionModel.dispose after its await: resetChat and unload.  The runs
\* awaiting the same instance registered before the dispose did (the registry
\* entry is deleted when dispose is called), so they resume first.
DisposeResume(h) ==
  /\ \A r \in 1..Len(runs) :
       runs[r].handle = h => runs[r].pc # "awaitInstance"
  /\ handles[h].disposing
  /\ handles[h].instance = "fulfilled"
  /\ ~handles[h].unloaded
  /\ handles' = [handles EXCEPT ![h].unloaded = TRUE]
  /\ UNCHANGED <<workerSharedArray, completionModels, runs, emitted, delivered>>
  /\ UNCHANGED fgVars

\* _generate after `await model.instance`: the load failed
GenerateLoadFailed(r) ==
  /\ runs[r].pc = "awaitInstance"
  /\ handles[runs[r].handle].instance = "rejected"
  /\ emitted' = Append(emitted, IException(<<>>, "load failed"))
  /\ runs' = [runs EXCEPT ![r].pc = "loadFailed"]
  /\ UNCHANGED <<workerSharedArray, completionModels, handles, delivered>>
  /\ UNCHANGED fgVars

GenerateResume_Acknowledges(r) ==
  /\ runs[r].pc = "awaitInstance"
  /\ handles[runs[r].handle].instance = "fulfilled"
  /\ runs' = [runs EXCEPT ![r].pc =
       IF sharedArray # runs[r].startCounter THEN "skipped" ELSE "creating"]
  /\ sharedArray' = runs[r].startCounter
  /\ UNCHANGED <<workerSharedArray, completionModels, handles, emitted, delivered>>
  /\ UNCHANGED <<notifications, settings, workerStarted, bufferSent,
                 currentGeneration, currentModels, loadingNotifications,
                 ready, streamPromises, tokenCounter, strm, pendingFetch,
                 pendingConfigure, fetchCalls, configureCalls, items, posted>>

GenerateResume_NoCheck(r) ==
  /\ runs[r].pc = "awaitInstance"
  /\ handles[runs[r].handle].instance = "fulfilled"
  /\ runs' = [runs EXCEPT ![r].pc = "creating"]
  /\ UNCHANGED <<workerSharedArray, completionModels, handles, emitted, delivered>>
  /\ UNCHANGED fgVars

\* _generate after `await model.instance`: the generation counter check, then
\* the request up to `await engine.chat.completions.create(request)`
GenerateResume(r) ==
  /\ runs[r].pc = "awaitInstance"
  /\ handles[runs[r].handle].instance = "fulfilled"
  /\ runs' = [runs EXCEPT ![r].pc =
       IF sharedArray # runs[r].startCounter THEN "skipped" ELSE "creating"]
  /\ UNCHANGED <<workerSharedArray, completionModels, handles, emitted, delivered>>
  /\ UNCHANGED fgVars

\* _generate, the loop after the try statement: output[i] is a string, so
\* output[i].generated_text is undefined and .substring throws before the
\* first 'complete' is posted
CompleteLoopEmitted_Posts(run) ==
  [i \in 1..Len(run.output) |->
     IComplete(run.idTokens[i], Substring(run.output[i], Len(run.text)))]

CompleteLoopEmitted(run) == <<>>
CompleteLoopPc(run) == IF Len(run.output) = 0 THEN "returned" ELSE "typeError"

\* _generate: the catch block's message
CatchEmitted(run, error) ==
  IF error = "Execution interrupted"
  THEN <<IInterrupted(run.idTokens)>>
  ELSE <<IException(run.idTokens, error)>>

\* engine.chat.completions.create resolves with the chunk generator
EngineCreated(r) ==
  /\ runs[r].pc = "creating"
  /\ runs' = [runs EXCEPT ![r].pc = "streaming"]
  /\ UNCHANGED <<workerSharedArray, completionModels, handles, emitted, delivered>>
  /\ UNCHANGED fgVars

\* create, or the chunk generator, throws: the catch block, then the loop
\* after the try statement
EngineFailed(r) ==
  /\ runs[r].pc \in {"creating", "streaming"}
  /\ emitted' = emitted \o CatchEmitted(runs[r], "engine error")
                        \o CompleteLoopEmitted(runs[r])
  /\ runs' = [runs EXCEPT ![r].pc = CompleteLoopPc(runs[r]),
                          ![r].tryExit = "exception"]
  /\ UNCHANGED <<workerSharedArray, completionModels, handles, delivered>>
  /\ UNCHANGED fgVars

\* one chunk's loop body: the outputs after the deltas
ChunkOutput(run, deltas) ==
  [i \in 1..Len(run.idTokens) |-> run.output[i] \o deltas[i]]

\* one chunk's loop body: the 'update' messages posted
ChunkEmitted(run, deltas) ==
  [i \in 1..Len(run.idTokens) |->
     IUpdate(run.idTokens[i],
             Substring(ChunkOutput(run, deltas)[i], Len(run.text)))]

\* the chunk generator yields a chunk: the `for await` body
EngineChunk(r, deltas) ==
  /\ runs[r].pc = "streaming"
  /\ runs[r].chunks < MaxChunks
  /\ IF sharedArray # runs[r].startCounter
     THEN /\ emitted' = emitted \o CatchEmitted(runs[r], "Execution interrupted")
                                \o CompleteLoopEmitted(runs[r])
          /\ runs' = [runs EXCEPT ![r].pc = CompleteLoopPc(runs[r]),
                                  ![r].tryExit = "interrupted"]
     ELSE /\ emitted' = emitted \o ChunkEmitted(runs[r], deltas)
          /\ runs' = [runs EXCEPT ![r].output = ChunkOutput(runs[r], deltas),
                                  ![r].chunks = @ + 1]
  /\ UNCHANGED <<workerSharedArray, completionModels, handles, delivered>>
  /\ UNCHANGED fgVars

\* the chunk generator ends: the loop after the try statement
EngineStreamEnd(r) ==
  /\ runs[r].pc = "streaming"
  /\ emitted' = emitted \o CompleteLoopEmitted(runs[r])
  /\ runs' = [runs EXCEPT ![r].pc = CompleteLoopPc(runs[r]),
                          ![r].tryExit = "end"]
  /\ UNCHANGED <<workerSharedArray, completionModels, handles, delivered>>
  /\ UNCHANGED fgVars

BgNext ==
  \/ HandleMessage
  \/ \E h \in 1..Len(handles) : EngineProgress(h)
  \/ \E h \in 1..Len(handles) : EngineLoaded(h)
  \/ \E h \in 1..Len(handles) : EngineLoadFailed(h)
  \/ \E h \in 1..Len(handles) : DisposeResume(h)
  \/ \E r \in 1..Len(runs) : GenerateLoadFailed(r)
  \/ \E r \in 1..Len(runs) : GenerateResume(r)
  \/ \E r \in 1..Len(runs) : EngineCreated(r)
  \/ \E r \in 1..Len(runs) : EngineFailed(r)
  \/ \E r \in 1..Len(runs) :
       \E deltas \in [1..Len(runs[r].idTokens) -> Deltas] : EngineChunk(r, deltas)
  \/ \E r \in 1..Len(runs) : EngineStreamEnd(r)

\* ------------------------------------------------ the worker's environment
\* The messages a provider may post, in any order: a generate message is
\* posted by a fetch(), which bumps the shared cell and mints the tokens.
BgModels == {"m1"}
BgTexts == {<<"a", "b">>}

PostControl(msg) ==
  /\ Len(posted) < MaxPosted
  /\ posted' = Append(posted, msg)
  /\ UNCHANGED <<notifications, settings, workerStarted, bufferSent, currentGeneration,
                 currentModels, loadingNotifications, ready, streamPromises,
                 tokenCounter, strm, pendingFetch, pendingConfigure,
                 fetchCalls, configureCalls, items, sharedArray>>
  /\ UNCHANGED bgVars

PostGenerate(m, text, n) ==
  /\ Len(posted) < MaxPosted
  /\ currentGeneration' = AbortPrevious(currentGeneration)
  /\ sharedArray' = AbortPrevious(currentGeneration)
  /\ tokenCounter' = tokenCounter + n
  /\ posted' = Append(posted,
       IGenerate(m, text, MintTokens(tokenCounter, n),
                 AbortPrevious(currentGeneration), n))
  /\ UNCHANGED <<notifications, settings, workerStarted, bufferSent, currentModels,
                 loadingNotifications, ready, streamPromises, strm,
                 pendingFetch, pendingConfigure, fetchCalls, configureCalls,
                 items>>
  /\ UNCHANGED bgVars

BgEnv ==
  \/ PostControl(IInitializeBuffer)
  \/ \E m \in BgModels : PostControl(IInitializeModel(m))
  \/ \E m \in BgModels \cup {NONE} : PostControl(IDisposeModel(m))
  \/ \E m \in BgModels, text \in BgTexts, n \in 1..MaxGenerateN :
       PostGenerate(m, text, n)

Init == FgInit /\ BgInit
Next == FgNext
Spec == Init /\ [][Next]_vars

NextBg == BgNext \/ BgEnv
SpecBg == Init /\ [][NextBg]_vars

\* The provider posting into the channel the worker consumes.  The stream side
\* of the provider (Pull and the update, complete and interrupted handlers)
\* posts nothing and writes nothing the posting actions read; it is left out.
\* The provider's load events are still drawn from the message contract.
\* With MaxConfigure = 1 no model is ever switched away from, so no
\* CompletionModel.dispose is ever awaited here.
LoadEventReceived ==
  \/ MsgWorkerStarted
  \/ /\ workerStarted
     /\ \/ \E m \in Requested : MsgInitiate(m)
        \/ \E m \in Requested : MsgReady(m)

NextSys ==
  \/ WorkerStartedThen
  \/ \E s \in SettingsChoices : ConfigureCall(s)
  \/ ConfigureResume
  \/ \E r \in Requests : FetchCall(r)
  \/ \E f \in pendingFetch : FetchResume(f)
  \/ LoadEventReceived
  \/ HandleMessage
  \/ \E h \in 1..Len(handles) : EngineProgress(h)
  \/ \E h \in 1..Len(handles) : EngineLoaded(h)
  \/ \E h \in 1..Len(handles) : EngineLoadFailed(h)
  \/ \E r \in 1..Len(runs) : GenerateLoadFailed(r)
  \/ \E r \in 1..Len(runs) : GenerateResume(r)
  \/ \E r \in 1..Len(runs) : EngineCreated(r)
  \/ \E r \in 1..Len(runs) : EngineFailed(r)
  \/ \E r \in 1..Len(runs) :
       \E deltas \in [1..Len(runs[r].idTokens) -> Deltas] : EngineChunk(r, deltas)
  \/ \E r \in 1..Len(runs) : EngineStreamEnd(r)
SpecSys == Init /\ [][NextSys]_vars

\* The provider's configuration path on its own: the host calls configure()
\* repeatedly, with any pair of models.
MaxReconfigure == 3

CfgSettings ==
  {[codeModel |-> c, textModel |-> t, generateN |-> 1, maxContextWindow |-> 1] :
     c \in ModelNames, t \in ModelNames}

NextCfg ==
  \/ MsgWorkerStarted
  \/ WorkerStartedThen
  \/ \E s \in CfgSettings : ConfigureCallUpTo(s, MaxReconfigure)
  \/ ConfigureResume
SpecCfg == Init /\ [][NextCfg]_vars

\* ------------------------------------------------------------------ claims
\* The generate message a token was minted for is the current one.
Current(t) == posted[RequestOf(t)].counter = currentGeneration
LastGenerate == CHOOSE i \in Generates : \A j \in Generates : j <= i

\* C1: a pull on stream(T) for a token T of a superseded request never
\* resolves with a value: every value a stream holds was delivered while the
\* request of its token was the current one.
C1_SupersededSilence ==
  \A t \in 1..tokenCounter :
    strm[t].pc = "yielded" => strm[t].at = posted[RequestOf(t)].counter

C4_StreamTermination ==
  [][\A t \in TokenIds, o \in Outputs :
       (MsgComplete(t, o) /\ t <= tokenCounter /\ Current(t)
          /\ strm[t].pc \notin {"returned", "rejected"})
       => (strm'[t].pc = "yielded" /\ strm'[t].done)]_vars

\* C6: every generate message carries generateN pairwise distinct tokens,
\* none of them minted by an earlier fetch, and the fetch returned exactly one
\* empty, incomplete placeholder item per token.
C6_TokenMinting ==
  \A i \in Generates :
    LET msg == posted[i] IN
      /\ Len(msg.idTokens) = msg.generateN
      /\ Cardinality(TokensOf(i)) = msg.generateN
      /\ \A j \in Generates : j < i => TokensOf(j) \cap TokensOf(i) = {}
      /\ i = LastGenerate =>
           /\ Len(items) = msg.generateN
           /\ \A k \in 1..Len(items) :
                items[k] = [insertText |-> <<>>, isIncomplete |-> TRUE,
                            token |-> msg.idTokens[k]]

C6_Witness ==
  /\ Cardinality(Generates) = 2
  /\ \A i \in Generates : posted[i].generateN = 2

\* C7: each generate message carries the shared epoch of the moment it was
\* dispatched, no two carry the same counter, and at most one dispatched
\* request (the last) has a counter equal to the shared epoch.
C7_OneCurrentGeneration ==
  /\ \A i, j \in Generates : i < j => posted[i].counter < posted[j].counter
  /\ Cardinality({i \in Generates : posted[i].counter = sharedArray}) <= 1
  /\ Generates # {} => posted[LastGenerate].counter = sharedArray
  /\ \A i \in Generates :
       i # LastGenerate => posted[i].counter # sharedArray

C7_Witness ==
  /\ Cardinality(Generates) = 2
  /\ \E i \in Generates : posted[i].counter # sharedArray

\* C8: an 'interrupted' event listing token T, received while a pull on
\* stream(T) is pending, rejects that pull and removes the delegate of T.
C8_InterruptedPull ==
  [][\A i \in Generates :
       MsgInterrupted(TokensOf(i)) =>
         \A t \in TokensOf(i) :
           strm[t].pc = "waiting" =>
             (strm'[t].pc = "rejected" /\ t \notin streamPromises')]_vars

\* The messages of one status the worker has posted about model m.
Emitted(status, m) ==
  {k \in 1..Len(emitted) : emitted[k].status = status /\ emitted[k].model = m}

\* The worker has nothing left to do: every message is handled, every load
\* is settled, every dispose and every run has finished.
Idle ==
  /\ delivered = Len(posted)
  /\ \A h \in 1..Len(handles) :
       /\ handles[h].instance # "pending"
       /\ (handles[h].disposing /\ handles[h].instance = "fulfilled")
            => handles[h].unloaded
  /\ \A r \in 1..Len(runs) :
       runs[r].pc \notin {"awaitInstance", "creating", "streaming"}

\* C3: a run whose chunk stream ended normally has posted one 'complete'
\* event for each of its candidate tokens.
C3_FanOutTerminal ==
  \A r \in 1..Len(runs) :
    runs[r].tryExit = "end" =>
      \A i \in 1..Len(runs[r].idTokens) :
        \E k \in 1..Len(emitted) :
          /\ emitted[k].status = "complete"
          /\ emitted[k].idToken = runs[r].idTokens[i]

\* C5: once the worker is idle, a model whose load succeeded and that was
\* never disposed has had exactly one 'initiate', one 'done' and one 'ready'
\* event posted about it.
C5_OneLoadSequence ==
  Idle =>
    \A h \in 1..Len(handles) :
      (/\ handles[h].instance = "fulfilled"
       /\ \A k \in 1..Len(posted) :
            ~(posted[k].action = "disposeModel"
              /\ posted[k].model = handles[h].model))
      => /\ Cardinality(Emitted("initiate", handles[h].model)) = 1
         /\ Cardinality(Emitted("done", handles[h].model)) = 1
         /\ Cardinality(Emitted("ready", handles[h].model)) = 1

\* C9: the provider posts nothing before it has received 'worker-started',
\* the first message it posts is initializeBuffer, and the worker never
\* handles a generate message (nor any other) while its shared array is unset.
C9_StartupOrdering ==
  /\ ~workerStarted => posted = <<>>
  /\ posted # <<>> => posted[1] = IInitializeBuffer
  /\ delivered >= 1 => workerSharedArray = "bound"
  /\ \A r \in 1..Len(runs) : runs[r].pc # "noBuffer"

C9_Witness ==
  /\ Len(runs) >= 1
  /\ runs[1].pc = "streaming"
  /\ pendingConfigure = 0

\* C10: handling disposeModel for a name without a registry entry changes
\* nothing in the worker and posts nothing, so a second disposeModel for the
\* same name adds nothing to the first.
C10_DisposalIdempotence ==
  [][(/\ delivered < Len(posted)
      /\ delivered' = delivered + 1
      /\ posted[delivered + 1].action = "disposeModel"
      /\ completionModels[posted[delivered + 1].model] = 0)
     => UNCHANGED <<workerSharedArray, completionModels, handles, runs,
                    emitted>>]_vars

C10_Witness ==
  /\ delivered = 3
  /\ posted[2] = IDisposeModel("m1")
  /\ posted[3] = IDisposeModel("m1")
  /\ Len(handles) = 1
  /\ handles[1].disposing

\* The accumulated raw output begins with the prompt.
BeginsWith(out, text) ==
  Len(out) >= Len(text) /\ SubSeq(out, 1, Len(text)) = text

\* The 'update' events of one chunk: for a candidate whose accumulated output
\* begins with the prompt, the prompt followed by the event's output is the
\* accumulated output.
C11_UpdateTrim ==
  [][\A r \in 1..Len(runs) :
       (r <= Len(runs') /\ runs'[r].chunks = runs[r].chunks + 1) =>
         \A i \in 1..Len(runs[r].idTokens) :
           BeginsWith(runs'[r].output[i], runs[r].text) =>
             LET msg == emitted'[Len(emitted) + i] IN
               /\ msg.status = "update"
               /\ msg.idToken = runs[r].idTokens[i]
               /\ runs[r].text \o msg.output = runs'[r].output[i]]_vars

\* C11: every 'update' and every 'complete' event of a candidate whose
\* accumulated output begins with the prompt carries the accumulated output
\* without its first Len(text) characters: the updates of each chunk do, and a
\* run whose chunk stream ended has posted such a 'complete' per candidate.
C11_TrimCorrectness ==
  /\ C11_UpdateTrim
  /\ [](\A r \in 1..Len(runs) :
          runs[r].tryExit = "end" =>
            \A i \in 1..Len(runs[r].idTokens) :
              BeginsWith(runs[r].output[i], runs[r].text) =>
                \E k \in 1..Len(emitted) :
                  /\ emitted[k].status = "complete"
                  /\ emitted[k].idToken = runs[r].idTokens[i]
                  /\ runs[r].text \o emitted[k].output = runs[r].output[i])

\* The worker's event loop runs every step that is ready to run: a posted
\* message is handled, a settled engine promise resumes what awaits it.
SpecBgLive == SpecBg /\ WF_vars(BgNext)

\* C12: about a model whose load succeeded the worker posts 'initiate', then
\* 'done', then 'ready', in that order, and 'ready' is eventually posted (so
\* a fetch() waiting for that model eventually passes its readiness wait).
C12_LoadSequence ==
  /\ [](\A m \in BgModels :
          /\ \A d \in Emitted("done", m) : \E i \in Emitted("initiate", m) : i < d
          /\ \A k \in Emitted("ready", m) : \E d \in Emitted("done", m) : d < k)
  /\ \A m \in BgModels :
       (\E h \in 1..Len(handles) :
          handles[h].model = m /\ handles[h].instance = "fulfilled")
       ~> (Emitted("ready", m) # {})

\* The tokens listed by the message at position k of `emitted`.
ListedBy(k) == {emitted[k].idTokens[i] : i \in 1..Len(emitted[k].idTokens)}

\* C13: a run that detected a generation counter mismatch on a chunk has
\* posted exactly one 'interrupted' event, carrying all its tokens, and no
\* 'update' or 'complete' event for any of them after it; and no token is
\* listed by an 'interrupted' or 'exception' event and also carried by a
\* 'complete' event.
C13_SingleTerminal ==
  /\ \A r \in 1..Len(runs) :
       runs[r].tryExit = "interrupted" =>
         LET at == {k \in 1..Len(emitted) :
                      /\ emitted[k].status = "interrupted"
                      /\ emitted[k].idTokens = runs[r].idTokens}
         IN  /\ Cardinality(at) = 1
             /\ \A k \in at, j \in 1..Len(emitted) :
                  (j > k /\ emitted[j].status \in {"update", "complete"})
                    => emitted[j].idToken \notin ListedBy(k)
  /\ \A k, j \in 1..Len(emitted) :
       (/\ emitted[k].status \in {"interrupted", "exception"}
        /\ emitted[j].status = "complete")
       => emitted[j].idToken \notin ListedBy(k)

C13_Witness ==
  \E r \in 1..Len(runs) :
    /\ runs[r].tryExit = "interrupted"
    /\ runs[r].chunks >= 1
    /\ Len(runs[r].idTokens) = 2

\* The messages of `emitted` that are about run r: they carry one of its
\* tokens or list its tokens.
EventsOf(r) ==
  {k \in 1..Len(emitted) :
     \/ emitted[k].status \in {"update", "complete"}
          /\ \E i \in 1..Len(runs[r].idTokens) :
               emitted[k].idToken = runs[r].idTokens[i]
     \/ emitted[k].status \in {"interrupted", "exception"}
          /\ emitted[k].idTokens = runs[r].idTokens}

\* C14: a run that finds, when it has finished awaiting the model instance,
\* the shared cell different from its captured counter stops there: it posts
\* nothing in that step, never submits a completion call and no event about
\* its request is ever posted.
C14_SilentAbort ==
  /\ [](\A r \in 1..Len(runs) :
          runs[r].pc = "skipped" =>
            /\ EventsOf(r) = {}
            /\ runs[r].chunks = 0
            /\ runs[r].tryExit = "none")
  /\ [][\A r \in 1..Len(runs) :
          /\ (/\ runs[r].pc = "awaitInstance"
              /\ runs'[r].pc # "awaitInstance"
              /\ handles[runs[r].handle].instance = "fulfilled"
              /\ sharedArray # runs[r].startCounter)
             => (runs'[r].pc = "skipped" /\ emitted' = emitted)
          /\ runs[r].pc = "skipped" => runs'[r] = runs[r]]_vars

C14_Witness ==
  \E r \in 1..Len(runs) :
    /\ runs[r].pc = "skipped"
    /\ \E q \in 1..Len(runs) : runs[q].pc = "streaming" /\ runs[q].chunks >= 1

\* C15: an 'exception' event listing the tokens of a request, received while
\* a pull on stream(T) is pending for one of them, rejects that pull and
\* removes the delegate of T, so the pull does not stay pending.
C15_ExceptionReleasesWaiters ==
  [][\A i \in Generates :
       (MsgException(TokensOf(i)) /\ Current(posted[i].idTokens[1])) =>
         \A t \in TokensOf(i) :
           (strm[t].pc = "waiting" /\ t \in streamPromises) =>
             (strm'[t].pc = "rejected" /\ t \notin streamPromises')]_vars

\* C16: after the load of a model has failed, handling the next
\* initializeModel or generate message that names it starts a new load: a
\* fresh handle is constructed and a new 'initiate' event is posted.
C16_LoadRetried ==
  [][(/\ delivered < Len(posted)
      /\ delivered' = delivered + 1
      /\ posted[delivered + 1].action \in {"initializeModel", "generate"}
      /\ workerSharedArray = "bound"
      /\ \E h \in 1..Len(handles) :
           /\ handles[h].model = posted[delivered + 1].model
           /\ handles[h].instance = "rejected"
           /\ completionModels[handles[h].model] = h)
     => /\ Len(handles') = Len(handles) + 1
        /\ handles'[Len(handles')].instance = "pending"
        /\ emitted' = Append(emitted, IInitiate(posted[delivered + 1].model))]_vars

\* C17: a model that no fetch() was ever issued for never starts loading; in
\* particular, while no fetch() has been issued at all, the worker has
\* constructed no handle and posted no 'initiate' event, whatever configure()
\* has set for the code and text classes.
C17_LazyLoading ==
  fetchCalls = 0 =>
    /\ handles = <<>>
    /\ \A k \in 1..Len(emitted) : emitted[k].status # "initiate"

\* The messages the claim expects of switchModel(newModel, class) when the
\* class's record is oldModel.
C18_Expected(oldModel, newModel) ==
  CASE oldModel = newModel -> <<>>
    [] oldModel # newModel /\ oldModel = UNDEFINED /\ newModel = NONE -> <<>>
    [] oldModel # newModel /\ oldModel = UNDEFINED /\ newModel # NONE ->
         <<IInitializeModel(newModel)>>
    [] oldModel # newModel /\ oldModel # UNDEFINED /\ newModel = NONE ->
         <<IDisposeModel(oldModel)>>
    [] oldModel # newModel /\ oldModel # UNDEFINED /\ newModel # NONE ->
         <<IDisposeModel(oldModel), IInitializeModel(newModel)>>

\* C18: the two switchModel calls of a configure() post, for the code class
\* and then for the text class, nothing when the class's record already is the
\* new model, and otherwise disposeModel(old) exactly when a record existed
\* followed by initializeModel(new) exactly when new is not 'none'; each call
\* sets its class's record to the new model and leaves the other class's
\* record alone.
C18_SwitchModelSequence ==
  /\ [][pendingConfigure' = pendingConfigure - 1 =>
          /\ posted' = posted
               \o C18_Expected(currentModels.code, settings.codeModel)
               \o C18_Expected(currentModels.text, settings.textModel)
          /\ currentModels'.code = settings.codeModel
          /\ currentModels'.text = settings.textModel
          /\ (/\ currentModels.code = settings.codeModel
              /\ currentModels.text = settings.textModel)
             => (posted' = posted /\ currentModels' = currentModels)]_vars
  /\ [](\A m \in ModelNames :
          /\ SwitchModelRecord(currentModels, m, "code").text = currentModels.text
          /\ SwitchModelRecord(currentModels, m, "code").code = m
          /\ SwitchModelRecord(currentModels, m, "text").code = currentModels.code
          /\ SwitchModelRecord(currentModels, m, "text").text = m)

C18_Witness ==
  /\ configureCalls = 3
  /\ pendingConfigure = 0
  /\ currentModels = [code |-> "m2", text |-> NONE]
  /\ \E k \in 1..(Len(posted) - 1) :
       /\ posted[k] = IDisposeModel("m1")
       /\ posted[k + 1] = IInitializeModel("m2")
  /\ \E k \in 1..Len(posted) : posted[k] = IDisposeModel(NONE)

\* C19: no step of the worker (handling generate, initializeModel,
\* disposeModel or initializeBuffer, or resuming a load or a run) writes the
\* shared cell, and the cell always holds the provider's generation counter.
C19_SingleWriter ==
  /\ [](sharedArray = currentGeneration)
  /\ [][bgVars' # bgVars => sharedArray' = sharedArray]_vars

C19_Witness ==
  /\ sharedArray = 2
  /\ \E r \in 1..Len(runs) : runs[r].pc = "skipped"
  /\ \E r \in 1..Len(runs) : runs[r].pc = "streaming" /\ runs[r].chunks >= 1

\* C20: a run whose captured counter still equals the shared cell never
\* submits a completion call to, or takes a chunk from, an engine that
\* disposeModel has unloaded.
C20_NoGenerationOnDisposedEngine ==
  [][\A r \in 1..Len(runs) :
       (/\ sharedArray = runs[r].startCounter
        /\ \/ runs[r].pc = "awaitInstance" /\ runs'[r].pc = "creating"
           \/ runs[r].pc = "streaming" /\ runs'[r].chunks = runs[r].chunks + 1)
       => ~handles[runs[r].handle].unloaded]_vars

\* The models a sequence of messages asks to dispose.
Disposed(msgs) ==
  {msgs[k].model : k \in {j \in 1..Len(msgs) : msgs[j].action = "disposeModel"}}

\* C21: neither switchModel call of a configure() posts disposeModel for a
\* model that, after the call, is the recorded model of the other content
\* class.
C21_SharedModelKept ==
  [][pendingConfigure' = pendingConfigure - 1 =>
       LET afterCode ==
             SwitchModelRecord(currentModels, settings.codeModel, "code")
           afterText ==
             SwitchModelRecord(afterCode, settings.textModel, "text")
       IN  /\ \A m \in Disposed(SwitchModelPosts(currentModels.code,
                                                 settings.codeModel)) :
                m # NONE => m # afterCode.text
           /\ \A m \in Disposed(SwitchModelPosts(afterCode.text,
                                                 settings.textModel)) :
                m # NONE => m # afterText.code]_vars

\* C22: of the engines created for one model name, at most one is loading or
\* loaded and not yet unloaded.
C22_OneEnginePerName ==
  \A m \in ModelNames :
    Cardinality({h \in 1..Len(handles) :
                   /\ handles[h].model = m
                   /\ handles[h].instance \in {"pending", "fulfilled"}
                   /\ ~handles[h].unloaded}) <= 1

\* C23: when a run finds the shared cell changed on a chunk and calls the
\* engine's interrupt, no other run on the same engine whose captured counter
\* equals the shared cell is streaming.
C23_InterruptHitsOnlyStaleRun ==
  [][\A r \in 1..Len(runs) :
       (r <= Len(runs') /\ runs[r].tryExit = "none"
          /\ runs'[r].tryExit = "interrupted")
       => \A q \in 1..Len(runs) :
            ~(/\ q # r
              /\ runs[q].handle = runs[r].handle
              /\ runs[q].pc = "streaming"
              /\ runs[q].startCounter = sharedArray)]_vars

====
